---- MODULE Spec2Model ----
(***************************************************************************)
(* Model of the history transaction layer of horizon (package history):    *)
(*   - transactionToMap and its helpers (the row normalizer),              *)
(*   - TransactionsQ (the chained read filter and its Select),             *)
(*   - transactionBatchInsertBuilder / transactionParticipantsBatch-       *)
(*     InsertBuilder over db.BatchInsertBuilder,                           *)
(*   - CheckExpTransactions (legacy vs. exp table comparison).             *)
(*                                                                         *)
(* Fixed-width Go integers are kept at their width.  TLC's integers stop   *)
(* at 2^31-1, so wider values are held as bit fields:                      *)
(*   uint32  [b, r]      value b*2^31 + r,  b in 0..1, r in 0..2^31-1      *)
(*   int32   a plain integer in -2^31..2^31-1                              *)
(*   uint64 / int64  [hi, lo] with hi, lo uint32 (int64: two's complement, *)
(*                   the sign is hi.b)                                     *)
(***************************************************************************)
EXTENDS Integers, Sequences, FiniteSets, TLC

VARIABLES
    ntx,        \* normalizer: the ledger transaction last handed to transactionToMap
    nseq,       \* normalizer: the ledger sequence handed with it (uint32)
    nout,       \* normalizer: the outcome of that call (row, error or panic)
    table,      \* reads: the history_transactions rows and the writes made to them
    q,          \* reads: the TransactionsQ object (sql, includeFailed, Err)
    sel,        \* reads: what the last Select did (the rows loaded into dest, the error)
    builder,    \* batch: the batch insert builder (kind, MaxBatchSize, pending rows)
    store,      \* batch: the rows the target table holds, in insertion order
    blog,       \* batch: the calls made so far (rows added, flushes, failures)
    legacy,     \* check: the rows of history_transactions
    shadow,     \* check: the rows of exp_history_transactions
    cres,       \* check: what the last CheckExpTransactions returned, if no write followed it
    clog,       \* check: the writes made to history_transactions so far
    accounts,   \* accounts: the rows of history_accounts and the next id of its sequence
    ares,       \* accounts: what the last CreateExpAccounts returned
    alog        \* accounts: the calls made, and the ids successful calls returned

nvars == <<ntx, nseq, nout>>
qvars == <<table, q, sel>>
bvars == <<builder, store, blog>>
cvars == <<legacy, shadow, cres, clog>>
avars == <<accounts, ares, alog>>
vars == <<ntx, nseq, nout, table, q, sel, builder, store, blog, legacy, shadow, cres, clog,
          accounts, ares, alog>>

----------------------------------------------------------------------------
(* Fixed-width integers *)

MaxInt32 == 2147483647
MinInt32 == (-2147483647) - 1

U32(n) == [b |-> 0, r |-> n]            \* 0 <= n <= 2^31-1
U32Hi(n) == [b |-> 1, r |-> n]          \* the value 2^31 + n
MaxUint32 == U32Hi(MaxInt32)

\* Go's int32(x) of a uint32: the same 32 bits read as two's complement.
Int32OfU32(u) == IF u.b = 1 THEN (u.r - MaxInt32) - 1 ELSE u.r

\* The 32 bits of an int32, as a uint32.
U32OfInt32(i) == IF i < 0 THEN U32Hi((i + MaxInt32) + 1) ELSE U32(i)

U32Less(x, y) == x.b < y.b \/ (x.b = y.b /\ x.r < y.r)

\* int64 / uint64 values as two 32-bit words.
W64(hi, lo) == [hi |-> hi, lo |-> lo]
I64OfNat(n) == W64(U32(0), U32(n))      \* 0 <= n <= 2^31-1
MaxInt64 == W64(U32(MaxInt32), MaxUint32)

\* Go's int64(x) of an int32: sign extension.
I64OfInt32(i) == W64(IF i < 0 THEN MaxUint32 ELSE U32(0), U32OfInt32(i))

\* Go's int32(x) of an int64: the low 32 bits.
Int32OfI64(x) == Int32OfU32(x.lo)

\* Signed 64-bit comparison.
I64Less(x, y) ==
    \/ Int32OfU32(x.hi) < Int32OfU32(y.hi)
    \/ (x.hi = y.hi /\ U32Less(x.lo, y.lo))

\* Unsigned 64-bit comparison.
U64Less(x, y) == U32Less(x.hi, y.hi) \/ (x.hi = y.hi /\ U32Less(x.lo, y.lo))

----------------------------------------------------------------------------
(* toid: the total order id.  The ledger sequence fills the high 32 bits,  *)
(* the transaction order the next 20, the operation order the low 12.      *)

TransactionBits == 20
OperationBits == 12
Pow2(n) == 2 ^ n
TransactionMask == Pow2(TransactionBits) - 1
OperationMask == Pow2(OperationBits) - 1

\* toid.New(ledger, tx, op): the three int32 fields.
toidNew(ledger, tx, op) == [LedgerSequence |-> ledger, TransactionOrder |-> tx, OperationOrder |-> op]

\* Inputs ToInt64 packs; any other is rejected as fatal.
toidValid(id) ==
    /\ id.LedgerSequence >= 0
    /\ id.TransactionOrder >= 0 /\ id.TransactionOrder <= TransactionMask
    /\ id.OperationOrder >= 0 /\ id.OperationOrder <= OperationMask

\* ToInt64 of a valid id: ledger << 32 | tx << 12 | op.
ToInt64(id) ==
    LET half == Pow2(TransactionBits - 1)
        top  == id.TransactionOrder \div half
        rest == id.TransactionOrder % half
    IN W64(U32(id.LedgerSequence),
           [b |-> top, r |-> rest * Pow2(OperationBits) + id.OperationOrder])

----------------------------------------------------------------------------
(* The xdr / base64 codec, opaque to this package: an encoded payload      *)
(* carries what was encoded; a stored text that is no encoding of anything *)
(* fails to decode.                                                        *)

MarshalBase64(v) == [fmt |-> "base64xdr", v |-> v]

\* What xdr.MarshalBase64 gives for a TransactionResult.
MarshalResult(res) == MarshalBase64([Code |-> res.Code, FeeCharged |-> res.FeeCharged])

\* xdr.SafeUnmarshalBase64 into a TransactionResult: ok is FALSE on a decode error.
SafeUnmarshalResult(blob) == [ok |-> blob.fmt = "base64xdr", Code |-> blob.v.Code]

\* hex / base64 / decimal / strkey renderings keep the value and name the encoding.
Render(enc, v) == [enc |-> enc, of |-> v]

----------------------------------------------------------------------------
(* Row normalizer: transactionToMap and its helpers *)

NoTimeBounds == [set |-> FALSE, MinTime |-> W64(U32(0), U32(0)), MaxTime |-> W64(U32(0), U32(0))]
TimeBounds(min, max) == [set |-> TRUE, MinTime |-> min, MaxTime |-> max]
Zero64 == W64(U32(0), U32(0))

\* The stored interval: null (no interval), or int8range(lower, upper) whose
\* upper end may itself be null.
NullRange == [null |-> TRUE, lower |-> Zero64, upperNull |-> TRUE, upper |-> Zero64]
Int8Range(lo, upNull, up) == [null |-> FALSE, lower |-> lo, upperNull |-> upNull, upper |-> up]

\* formatTimeBounds without the clamp of MaxTime to math.MaxInt64.
formatTimeBoundsNoClamp(transaction) ==
    IF ~transaction.TimeBounds.set THEN NullRange
    ELSE IF transaction.TimeBounds.MaxTime = Zero64
         THEN Int8Range(transaction.TimeBounds.MinTime, TRUE, Zero64)
    ELSE Int8Range(transaction.TimeBounds.MinTime, FALSE, transaction.TimeBounds.MaxTime)

formatTimeBounds(transaction) ==
    IF ~transaction.TimeBounds.set THEN NullRange
    ELSE IF transaction.TimeBounds.MaxTime = Zero64
         THEN Int8Range(transaction.TimeBounds.MinTime, TRUE, Zero64)
    ELSE LET maxTime == IF U64Less(MaxInt64, transaction.TimeBounds.MaxTime)
                        THEN MaxInt64
                        ELSE transaction.TimeBounds.MaxTime
         IN Int8Range(transaction.TimeBounds.MinTime, FALSE, maxTime)

signatures(transaction) ==
    [i \in 1..Len(transaction.Signatures) |-> Render("base64", transaction.Signatures[i])]

MemoTypes == {"MemoNone", "MemoText", "MemoId", "MemoHash", "MemoReturn"}

\* memoType panics on a type outside the five.
memoTypePanics(transaction) == transaction.Memo.Type \notin MemoTypes

memoType(transaction) ==
    CASE transaction.Memo.Type = "MemoNone" -> "none"
      [] transaction.Memo.Type = "MemoText" -> "text"
      [] transaction.Memo.Type = "MemoId" -> "id"
      [] transaction.Memo.Type = "MemoHash" -> "hash"
      [] transaction.Memo.Type = "MemoReturn" -> "return"
      [] OTHER -> "panic"

\* utf8.Scrub: a byte sequence that is no valid UTF-8 becomes the replacement rune.
Scrub(text) == [i \in 1..Len(text) |-> IF text[i] = "INVALID" THEN "FFFD" ELSE text[i]]

\* strings.Join(strings.Split(s, "\x00"), ""): s without its NUL characters.
RECURSIVE StripNul(_)
StripNul(s) ==
    IF s = <<>> THEN <<>>
    ELSE IF Head(s) = "NUL" THEN StripNul(Tail(s))
    ELSE <<Head(s)>> \o StripNul(Tail(s))

NullString(value, valid) == [String |-> value, Valid |-> valid]

\* A memo that trims the NUL characters at the two ends of a text and keeps
\* the embedded ones.
RECURSIVE TrimNul(_)
TrimNul(s) ==
    IF s = <<>> THEN <<>>
    ELSE IF Head(s) = "NUL" THEN TrimNul(Tail(s))
    ELSE IF s[Len(s)] = "NUL" THEN TrimNul(SubSeq(s, 1, Len(s) - 1))
    ELSE s

memoTrimmingNul(transaction) ==
    CASE transaction.Memo.Type = "MemoNone" -> NullString(<<>>, FALSE)
      [] transaction.Memo.Type = "MemoText" ->
            NullString(TrimNul(Scrub(transaction.Memo.Text)), TRUE)
      [] transaction.Memo.Type = "MemoId" ->
            NullString(<<"dec", transaction.Memo.Id>>, TRUE)
      [] transaction.Memo.Type = "MemoHash" ->
            NullString(<<"base64", transaction.Memo.Hash>>, TRUE)
      [] transaction.Memo.Type = "MemoReturn" ->
            NullString(<<"base64", transaction.Memo.RetHash>>, TRUE)
      [] OTHER -> NullString(<<"panic">>, FALSE)

memo(transaction) ==
    CASE transaction.Memo.Type = "MemoNone" -> NullString(<<>>, FALSE)
      [] transaction.Memo.Type = "MemoText" ->
            NullString(StripNul(Scrub(transaction.Memo.Text)), TRUE)
      [] transaction.Memo.Type = "MemoId" ->
            NullString(<<"dec", transaction.Memo.Id>>, TRUE)
      [] transaction.Memo.Type = "MemoHash" ->
            NullString(<<"base64", transaction.Memo.Hash>>, TRUE)
      [] transaction.Memo.Type = "MemoReturn" ->
            NullString(<<"base64", transaction.Memo.RetHash>>, TRUE)
      [] OTHER -> NullString(<<"panic">>, FALSE)

\* The call's outcome: a row, an error return, or a panic.
NoRow == [none |-> TRUE]
Outcome(status, row) == [status |-> status, row |-> row]

\* The id expression of the row: toid.New(int32(sequence), int32(Index), 0).
rowToid(transaction, sequence) ==
    toidNew(Int32OfU32(sequence), Int32OfU32(transaction.Index), 0)

\* The stored max_fee: int32(Envelope.Tx.Fee).
rowMaxFee(transaction) == Int32OfU32(transaction.Fee)

\* The stored fee_charged: int32(Result.Result.FeeCharged).
rowFeeCharged(transaction) == Int32OfI64(transaction.Result.FeeCharged)

\* A boolean column; a nullable one may also hold "NULL".
BoolCol(b) == IF b THEN "true" ELSE "false"

\* The envelope as the codec sees it.
Envelope(transaction) ==
    [SourceAccount |-> transaction.SourceAccount, Fee |-> transaction.Fee,
     SeqNum |-> transaction.SeqNum, TimeBounds |-> transaction.TimeBounds,
     Memo |-> transaction.Memo, Operations |-> transaction.Operations,
     Signatures |-> transaction.Signatures]

\* A successful flag that takes every code but txFAILED for success.
rowSuccessfulNotFailed(transaction) == transaction.Result.Code # "txFAILED"

\* The stored successful flag.
rowSuccessful(transaction) == transaction.Result.Code = "txSUCCESS"

\* transactionToMap(transaction, sequence); now1 and now2 are the two clock reads.
transactionToMap(transaction, sequence, now1, now2) ==
    IF ~transaction.envelopeOk \/ ~transaction.resultOk
       \/ ~transaction.metaOk \/ ~transaction.feeChangesOk
    THEN Outcome("error", NoRow)
    ELSE IF ~toidValid(rowToid(transaction, sequence)) \/ memoTypePanics(transaction)
    THEN Outcome("panic", NoRow)
    ELSE Outcome("row",
        [id                |-> ToInt64(rowToid(transaction, sequence)),
         transaction_hash  |-> Render("hex", transaction.Hash),
         ledger_sequence   |-> sequence,
         application_order |-> Int32OfU32(transaction.Index),
         account           |-> Render("strkey", transaction.SourceAccount),
         account_sequence  |-> Render("dec", transaction.SeqNum),
         max_fee           |-> rowMaxFee(transaction),
         fee_charged       |-> rowFeeCharged(transaction),
         operation_count   |-> transaction.Operations,
         tx_envelope       |-> MarshalBase64(Envelope(transaction)),
         tx_result         |-> MarshalResult(transaction.Result),
         tx_meta           |-> MarshalBase64(transaction.Meta),
         tx_fee_meta       |-> MarshalBase64(transaction.FeeChanges),
         signatures        |-> signatures(transaction),
         time_bounds       |-> formatTimeBounds(transaction),
         memo_type         |-> memoType(transaction),
         memo              |-> memo(transaction),
         created_at        |-> now1,
         updated_at        |-> now2,
         successful        |-> BoolCol(rowSuccessful(transaction))])

\* Transaction.IsSuccessful: an unset (NULL) successful flag counts as true.
IsSuccessful(t) == IF t.successful = "NULL" THEN TRUE ELSE t.successful = "true"

----------------------------------------------------------------------------
(* Inputs of the normalizer *)

MaxClock == 1

NormSequences == {U32(1), U32(MaxInt32), U32Hi(0), MaxUint32}
NormIndexes == {U32(0), U32(TransactionMask), U32(TransactionMask + 1), U32Hi(1)}
NormFees == {U32(100), U32(MaxInt32), U32Hi(0)}
NormFeesCharged == {I64OfNat(100), W64(U32(0), U32Hi(0)), W64(U32(1), U32(100))}
NormCodes == {"txSUCCESS", "txFAILED", "txBAD_SEQ"}
NormTimeBounds ==
    {NoTimeBounds} \cup
    {TimeBounds(I64OfNat(5), max) :
        max \in {Zero64, I64OfNat(7), MaxInt64, W64(U32Hi(0), U32(0)), W64(MaxUint32, MaxUint32)}}
NoMemo == [Type |-> "MemoNone", Text |-> <<>>, Id |-> "0", Hash |-> "h0", RetHash |-> "r0"]
NormMemos ==
    {NoMemo,
     [NoMemo EXCEPT !.Type = "MemoText", !.Text = <<"h", "i", "NUL", "t", "h", "e", "r", "e">>],
     [NoMemo EXCEPT !.Type = "MemoText", !.Text = <<"NUL", "INVALID", "a", "NUL", "NUL">>],
     [NoMemo EXCEPT !.Type = "MemoText"],
     [NoMemo EXCEPT !.Type = "MemoId", !.Id = "42"],
     [NoMemo EXCEPT !.Type = "MemoHash", !.Hash = "h1"],
     [NoMemo EXCEPT !.Type = "MemoReturn", !.RetHash = "r1"],
     [NoMemo EXCEPT !.Type = "MemoOther"]}
\* Which of the four marshal calls fails, if any.
NormMarshal == {"none", "envelope", "result", "meta", "feeChanges"}

LedgerTransaction(index, fee, charged, code, tb, mm, fails) ==
    [Index |-> index, Hash |-> "ea1e", SourceAccount |-> "GA", SeqNum |-> "78621794419880145",
     Fee |-> fee, Operations |-> 1, Signatures |-> <<"sig1">>,
     TimeBounds |-> tb, Memo |-> mm,
     Result |-> [Code |-> code, FeeCharged |-> charged],
     Meta |-> "meta1", FeeChanges |-> "fee1",
     envelopeOk |-> fails # "envelope", resultOk |-> fails # "result",
     metaOk |-> fails # "meta", feeChangesOk |-> fails # "feeChanges"]

NormTransactions ==
    {LedgerTransaction(index, fee, charged, code, tb, mm, fails) :
        index \in NormIndexes, fee \in NormFees, charged \in NormFeesCharged,
        code \in NormCodes, tb \in NormTimeBounds, mm \in NormMemos,
        fails \in NormMarshal}

\* A ledger transaction and its ledger's sequence are about to be normalized.
NormInit ==
    /\ ntx \in NormTransactions
    /\ nseq \in NormSequences
    /\ nout = Outcome("none", NoRow)

\* The call transactionToMap(ntx, nseq); the clock is read twice and may advance
\* between the reads.
Normalize ==
    /\ nout.status = "none"
    /\ \E now1 \in 0..MaxClock :
         \E now2 \in now1..MaxClock :
           nout' = transactionToMap(ntx, nseq, now1, now2)
    /\ UNCHANGED <<ntx, nseq>>
    /\ UNCHANGED <<qvars, bvars, cvars, avars>>

NormNext == Normalize


----------------------------------------------------------------------------
(* The post-fetch checks Select runs on one loaded row (the loop body).     *)

\* The row checks without the last one (successful=false but result success).
selectRowCheckNoFalseCheck(t, includeFailed) ==
    LET resultXDR == SafeUnmarshalResult(t.tx_result)
    IN IF ~resultXDR.ok THEN "decode error"
       ELSE IF ~includeFailed /\ ~IsSuccessful(t)
            THEN "Corrupted data! include_failed=false but returned transaction is failed"
       ELSE IF ~includeFailed /\ resultXDR.Code # "txSUCCESS"
            THEN "Corrupted data! include_failed=false but returned transaction is failed"
       ELSE IF IsSuccessful(t) /\ resultXDR.Code # "txSUCCESS"
            THEN "Corrupted data! successful=true but returned transaction is not success"
       ELSE "nil"

selectRowCheck(t, includeFailed) ==
    LET resultXDR == SafeUnmarshalResult(t.tx_result)
    IN IF ~resultXDR.ok THEN "decode error"
       ELSE IF ~includeFailed /\ ~IsSuccessful(t)
            THEN "Corrupted data! include_failed=false but returned transaction is failed"
       ELSE IF ~includeFailed /\ resultXDR.Code # "txSUCCESS"
            THEN "Corrupted data! include_failed=false but returned transaction is failed"
       ELSE IF IsSuccessful(t) /\ resultXDR.Code # "txSUCCESS"
            THEN "Corrupted data! successful=true but returned transaction is not success"
       ELSE IF ~IsSuccessful(t) /\ resultXDR.Code = "txSUCCESS"
            THEN "Corrupted data! successful=false but returned transaction is success"
       ELSE "nil"

\* A success filter that forgets the rows whose flag is unset.
successFilterTrueOnly(t) == t.successful = "true"

\* The success filter of the default mode, as SQL evaluates it on a row.
successFilter(t) == t.successful = "true" \/ t.successful = "NULL"

----------------------------------------------------------------------------
(* The store the reads run against: history_transactions, its participants, *)
(* history_accounts and history_ledgers.                                    *)

MaxUpdates == 2
MaxCalls == 3

\* A history_transactions row as Select reads it.
HistoryRow(ledger, order, hash, flag, code) ==
    [id |-> ToInt64(toidNew(ledger, order, 0)),
     transaction_hash |-> hash,
     successful |-> flag,
     tx_result |-> MarshalResult([Code |-> code, FeeCharged |-> I64OfNat(100)])]

\* A stored tx_result that is no encoding of a result.
GarbageResult(blob) == [blob EXCEPT !.fmt = "text"]

\* The rows at the start: an ingested success, an ingested failure, and a
\* success from before the successful column existed (flag unset).
ScenarioRows ==
    <<HistoryRow(1, 1, "a2da", "true", "txSUCCESS"),
      HistoryRow(1, 2, "aa16", "false", "txFAILED"),
      HistoryRow(2, 1, "56e3", "NULL", "txSUCCESS")>>

\* history_transaction_participants: (history_transaction_id, history_account_id).
Participants ==
    {<<ScenarioRows[1].id, 1>>, <<ScenarioRows[2].id, 1>>,
     <<ScenarioRows[2].id, 2>>, <<ScenarioRows[3].id, 2>>}

Addresses == {"GA5W", "GBXG", "GNOBODY"}

\* q.parent.AccountByAddress: the account's id, or an error for an unknown address.
AccountByAddress(aid) ==
    CASE aid = "GA5W" -> [err |-> "nil", ID |-> 1]
      [] aid = "GBXG" -> [err |-> "nil", ID |-> 2]
      [] OTHER -> [err |-> "sql: no rows in result set", ID |-> 0]

LedgerSequences == {1, 2, 7}

\* q.parent.LedgerBySequence: an error for a ledger history_ledgers does not hold.
LedgerBySequence(seq) == IF seq \in {1, 2} THEN "nil" ELSE "sql: no rows in result set"

----------------------------------------------------------------------------
(* The select builder: joins, where clauses (a conjunction), limit, order. *)

selectTransaction == [joins |-> 0, wheres |-> <<>>, limit |-> 0, orderBys |-> <<>>]

Clause(k, acct, lo, hi) == [k |-> k, acct |-> acct, lo |-> lo, hi |-> hi]
AccountClause(id) == Clause("htp.history_account_id = ?", id, Zero64, Zero64)
LedgerClause(start, end) == Clause("ht.id >= ? AND ht.id < ?", 0, start, end)
CursorClause(op, cursor) == Clause(op, 0, cursor, Zero64)
SuccessClause == Clause("(ht.successful = true OR ht.successful IS NULL)", 0, Zero64, Zero64)

\* A Where that puts the new clause in front of the others.
WhereInFront(sql, clause) == [sql EXCEPT !.wheres = <<clause>> \o @]

Where(sql, clause) == [sql EXCEPT !.wheres = Append(@, clause)]

\* int32 addition of one, wrapping as Go does.
Int32Succ(i) == IF i = MaxInt32 THEN MinInt32 ELSE i + 1

\* Whether a row (joined with the participants when the clause asks) satisfies a clause.
ClauseHolds(c, t) ==
    CASE c.k = "htp.history_account_id = ?" -> <<t.id, c.acct>> \in Participants
      [] c.k = "ht.id >= ? AND ht.id < ?" -> ~I64Less(t.id, c.lo) /\ I64Less(t.id, c.hi)
      [] c.k = "ht.id > ?" -> I64Less(c.lo, t.id)
      [] c.k = "ht.id < ?" -> I64Less(t.id, c.lo)
      [] OTHER -> successFilter(t)

Range(f) == {f[i] : i \in DOMAIN f}

\* The rows of the table a statement matches.
Matching(sql, rows) ==
    {t \in Range(rows) : \A i \in DOMAIN sql.wheres : ClauseHolds(sql.wheres[i], t)}

\* The orders the store may return a set of rows in: every order without ORDER BY,
\* by id with one (the first ORDER BY term decides, ids being unique).
Orderings(sql, S) ==
    LET perms == {f \in [1..Cardinality(S) -> S] : \A i, j \in DOMAIN f : f[i] = f[j] => i = j}
    IN IF sql.orderBys = <<>> THEN perms
       ELSE IF sql.orderBys[1] = "ht.id asc"
            THEN {f \in perms : \A i, j \in DOMAIN f : i < j => I64Less(f[i].id, f[j].id)}
       ELSE {f \in perms : \A i, j \in DOMAIN f : i < j => I64Less(f[j].id, f[i].id)}

Limited(sql, f) ==
    IF sql.limit = 0 \/ Len(f) <= sql.limit THEN f ELSE SubSeq(f, 1, sql.limit)

\* The results q.parent.Select may load for a statement.
QueryResults(sql, rows) == {Limited(sql, f) : f \in Orderings(sql, Matching(sql, rows))}

\* The alias htp joined more than once is rejected by the store.
StatementValid(sql) == sql.joins <= 1

\* db2.PageQuery.ApplyTo(sql, "ht.id"): limit, then cursor and order; an order
\* that is neither asc nor desc is an error.
PageQueries ==
    {[Order |-> "asc", Cursor |-> Zero64, Limit |-> 1],
     [Order |-> "asc", Cursor |-> ToInt64(toidNew(1, 1, 0)), Limit |-> 2],
     [Order |-> "desc", Cursor |-> ToInt64(toidNew(2, 1, 0)), Limit |-> 2],
     [Order |-> "sideways", Cursor |-> Zero64, Limit |-> 2]}

ApplyTo(page, sql) ==
    LET limited == [sql EXCEPT !.limit = page.Limit]
    IN CASE page.Order = "asc" ->
              [sql |-> [Where(limited, CursorClause("ht.id > ?", page.Cursor))
                           EXCEPT !.orderBys = Append(@, "ht.id asc")],
               err |-> "nil"]
         [] page.Order = "desc" ->
              [sql |-> [Where(limited, CursorClause("ht.id < ?", page.Cursor))
                           EXCEPT !.orderBys = Append(@, "ht.id desc")],
               err |-> "nil"]
         [] OTHER -> [sql |-> limited, err |-> "invalid order"]

----------------------------------------------------------------------------
(* TransactionsQ *)

NoSelect ==
    [ran |-> FALSE, err |-> "none", dest |-> <<>>, destOk |-> TRUE,
     includeFailed |-> FALSE, sql |-> selectTransaction, rows |-> ScenarioRows]

\* Q.Transactions(); failed remembers that some filter step on the object has
\* failed (the object itself keeps only Err).
NewTransactionsQ ==
    [sql |-> selectTransaction, includeFailed |-> FALSE, Err |-> "nil", calls |-> 0,
     failed |-> FALSE]

QInit ==
    /\ table = [rows |-> ScenarioRows, updates |-> 0]
    /\ q = NewTransactionsQ
    /\ sel = NoSelect

\* A write to history_transactions from outside this package (the tests' UPDATE of
\* successful or of tx_result on one row), made before the query is chained: the
\* filters do not read the table, Select reads it once.
UpdateRow ==
    /\ q.calls = 0
    /\ table.updates < MaxUpdates
    /\ \E i \in DOMAIN table.rows :
         \/ \E flag \in {"true", "false", "NULL"} :
              /\ flag # table.rows[i].successful
              /\ table' = [rows |-> [table.rows EXCEPT ![i].successful = flag],
                           updates |-> table.updates + 1]
         \/ /\ table.rows[i].tx_result.fmt = "base64xdr"
            /\ table' = [rows |-> [table.rows EXCEPT ![i].tx_result = GarbageResult(@)],
                         updates |-> table.updates + 1]
    /\ UNCHANGED <<q, sel>>
    /\ UNCHANGED <<nvars, bvars, cvars, avars>>

ForAccount(aid) ==
    /\ q.calls < MaxCalls
    /\ LET account == AccountByAddress(aid)
       IN q' = IF account.err # "nil"
               THEN [q EXCEPT !.Err = account.err, !.calls = @ + 1, !.failed = TRUE]
               ELSE [q EXCEPT !.Err = "nil", !.calls = @ + 1,
                              !.sql = Where([q.sql EXCEPT !.joins = @ + 1],
                                            AccountClause(account.ID))]
    /\ UNCHANGED <<table, sel>>
    /\ UNCHANGED <<nvars, bvars, cvars, avars>>

ForLedger(seq) ==
    /\ q.calls < MaxCalls
    /\ LET err == LedgerBySequence(seq)
           start == toidNew(seq, 0, 0)
           end == toidNew(Int32Succ(seq), 0, 0)
       IN q' = IF err # "nil"
               THEN [q EXCEPT !.Err = err, !.calls = @ + 1, !.failed = TRUE]
               ELSE [q EXCEPT !.Err = "nil", !.calls = @ + 1,
                              !.sql = Where(q.sql, LedgerClause(ToInt64(start), ToInt64(end)))]
    /\ UNCHANGED <<table, sel>>
    /\ UNCHANGED <<nvars, bvars, cvars, avars>>

IncludeFailed ==
    /\ q.calls < MaxCalls
    /\ q' = [q EXCEPT !.includeFailed = TRUE, !.calls = @ + 1]
    /\ UNCHANGED <<table, sel>>
    /\ UNCHANGED <<nvars, bvars, cvars, avars>>

Page(page) ==
    /\ q.calls < MaxCalls
    /\ q' = IF q.Err # "nil"
            THEN [q EXCEPT !.calls = @ + 1]
            ELSE LET applied == ApplyTo(page, q.sql)
                 IN [q EXCEPT !.sql = applied.sql, !.Err = applied.err, !.calls = @ + 1,
                               !.failed = @ \/ applied.err # "nil"]
    /\ UNCHANGED <<table, sel>>
    /\ UNCHANGED <<nvars, bvars, cvars, avars>>

\* The error of the first loaded row that fails a check, "nil" when none does.
RECURSIVE firstRowError(_, _)
firstRowError(transactions, includeFailed) ==
    IF transactions = <<>> THEN "nil"
    ELSE LET err == selectRowCheck(Head(transactions), includeFailed)
         IN IF err # "nil" THEN err ELSE firstRowError(Tail(transactions), includeFailed)

Select ==
    /\ q.calls < MaxCalls
    /\ IF q.Err # "nil"
       THEN /\ q' = [q EXCEPT !.calls = @ + 1]
            /\ sel' = [NoSelect EXCEPT !.err = q.Err, !.includeFailed = q.includeFailed,
                                       !.sql = q.sql, !.rows = table.rows]
       ELSE LET sql == IF ~q.includeFailed THEN Where(q.sql, SuccessClause) ELSE q.sql
            IN \E dbOk \in BOOLEAN, destOk \in BOOLEAN :
                 IF ~dbOk \/ ~StatementValid(sql)
                 THEN /\ q' = [q EXCEPT !.sql = sql, !.Err = "db error", !.calls = @ + 1]
                      /\ sel' = [NoSelect EXCEPT !.err = "db error", !.destOk = destOk,
                                                 !.includeFailed = q.includeFailed,
                                                 !.sql = sql, !.rows = table.rows]
                 ELSE \E loaded \in QueryResults(sql, table.rows) :
                      /\ q' = [q EXCEPT !.sql = sql, !.calls = @ + 1]
                      /\ sel' = [ran |-> TRUE,
                                 err |-> IF ~destOk THEN "dest is not *[]Transaction"
                                         ELSE firstRowError(loaded, q.includeFailed),
                                 dest |-> loaded, destOk |-> destOk,
                                 includeFailed |-> q.includeFailed,
                                 sql |-> sql, rows |-> table.rows]
    /\ UNCHANGED table
    /\ UNCHANGED <<nvars, bvars, cvars, avars>>

QNext ==
    \/ UpdateRow
    \/ \E aid \in Addresses : ForAccount(aid)
    \/ \E seq \in LedgerSequences : ForLedger(seq)
    \/ IncludeFailed
    \/ \E page \in PageQueries : Page(page)
    \/ Select

----------------------------------------------------------------------------
(* db.BatchInsertBuilder and the two builders that wrap it *)

MaxBatch == 3
MaxAdds == 4
MaxExecs == 2

\* db.BatchInsertBuilder{Table: ..., MaxBatchSize: maxBatchSize}
BatchInsertBuilder(kind, maxBatchSize) ==
    [kind |-> kind, MaxBatchSize |-> maxBatchSize, rows |-> <<>>]

\* A builder whose threshold is one more than asked for.
NewTransactionBatchInsertBuilderOffByOne(maxBatchSize) ==
    BatchInsertBuilder("exp_history_transactions", maxBatchSize + 1)

\* Q.NewTransactionBatchInsertBuilder(maxBatchSize)
NewTransactionBatchInsertBuilder(maxBatchSize) ==
    BatchInsertBuilder("exp_history_transactions", maxBatchSize)

\* Q.NewTransactionParticipantsBatchInsertBuilder(maxBatchSize)
NewTransactionParticipantsBatchInsertBuilder(maxBatchSize) ==
    BatchInsertBuilder("exp_history_transaction_participants", maxBatchSize)

\* The ledger transactions handed to Add: two that normalize, one whose result
\* does not marshal, one whose memo type is unknown.
BatchTransactions ==
    {LedgerTransaction(U32(1), U32(100), I64OfNat(100), "txSUCCESS", NoTimeBounds, NoMemo, "none"),
     LedgerTransaction(U32(2), U32(300), I64OfNat(300), "txFAILED", NoTimeBounds, NoMemo, "none"),
     LedgerTransaction(U32(3), U32(100), I64OfNat(100), "txSUCCESS", NoTimeBounds, NoMemo, "result"),
     LedgerTransaction(U32(4), U32(100), I64OfNat(100), "txSUCCESS", NoTimeBounds,
                       [NoMemo EXCEPT !.Type = "MemoOther"], "none")}

\* The (transaction id, account id) pairs handed to the participants builder.
BatchParticipants ==
    {[history_transaction_id |-> 1, history_account_id |-> 100],
     [history_transaction_id |-> 1, history_account_id |-> 101],
     [history_transaction_id |-> 2, history_account_id |-> 100]}

\* The calls made on a builder constructed with maxBatchSize.
NoCalls(maxBatchSize) ==
    [maxBatchSize |-> maxBatchSize, added |-> <<>>, flushes |-> <<>>,
     flushFailed |-> FALSE, adds |-> 0, execs |-> 0, lastOp |-> "new"]

BInit ==
    \E maxBatchSize \in 0..MaxBatch :
        /\ builder \in {NewTransactionBatchInsertBuilder(maxBatchSize),
                        NewTransactionParticipantsBatchInsertBuilder(maxBatchSize)}
        /\ store = <<>>
        /\ blog = NoCalls(maxBatchSize)

\* BatchInsertBuilder.Exec: nothing to do without pending rows; otherwise one
\* insert of all of them, which the store accepts (ok) or refuses; refused rows
\* stay pending and the error is returned.
builderExec(b, st, ok) ==
    IF b.rows = <<>>
    THEN [builder |-> b, store |-> st, flushed |-> 0, err |-> "nil"]
    ELSE IF ok
    THEN [builder |-> [b EXCEPT !.rows = <<>>], store |-> st \o b.rows,
          flushed |-> Len(b.rows), err |-> "nil"]
    ELSE [builder |-> b, store |-> st, flushed |-> 0, err |-> "exec error"]

\* BatchInsertBuilder.Row(row): append, and Exec once MaxBatchSize rows are pending.
builderRow(b, st, row, ok) ==
    LET appended == [b EXCEPT !.rows = Append(@, row)]
    IN IF Len(appended.rows) = appended.MaxBatchSize
       THEN builderExec(appended, st, ok)
       ELSE [builder |-> appended, store |-> st, flushed |-> 0, err |-> "nil"]

\* The log after a call `op` that handed `rows` to the builder with result r.
Logged(log, op, rows, r) ==
    [log EXCEPT !.added = IF r.err = "nil" THEN @ \o rows ELSE @,
                !.flushes = IF r.flushed > 0
                            THEN Append(@, [size |-> r.flushed, by |-> op])
                            ELSE @,
                !.flushFailed = @ \/ r.err # "nil",
                !.adds = IF op = "Add" THEN @ + 1 ELSE @,
                !.execs = IF op = "Exec" THEN @ + 1 ELSE @,
                !.lastOp = IF r.err = "nil" THEN op ELSE op \o " error"]

\* An Add that returns nil without handing the row to the builder.
AddWithoutRow ==
    /\ builder.kind = "exp_history_transactions"
    /\ blog.adds < MaxAdds
    /\ \E transaction \in BatchTransactions :
         LET m == transactionToMap(transaction, U32(123), 0, 0)
         IN /\ m.status = "row"
            /\ blog' = [blog EXCEPT !.added = Append(@, m.row), !.adds = @ + 1,
                                    !.lastOp = "Add"]
    /\ UNCHANGED <<builder, store>>
    /\ UNCHANGED <<nvars, qvars, cvars, avars>>

\* transactionBatchInsertBuilder.Add(transaction, sequence); the wall clock is
\* held still.
Add ==
    /\ builder.kind = "exp_history_transactions"
    /\ blog.adds < MaxAdds
    /\ \E transaction \in BatchTransactions, ok \in BOOLEAN :
         LET m == transactionToMap(transaction, U32(123), 0, 0)
             r == builderRow(builder, store, m.row, ok)
         IN IF m.status # "row"
            THEN /\ blog' = [blog EXCEPT !.adds = @ + 1, !.lastOp = "Add " \o m.status]
                 /\ UNCHANGED <<builder, store>>
            ELSE /\ builder' = r.builder
                 /\ store' = r.store
                 /\ blog' = Logged(blog, "Add", <<m.row>>, r)
    /\ UNCHANGED <<nvars, qvars, cvars, avars>>

\* transactionBatchInsertBuilder.Exec()
Exec ==
    /\ builder.kind = "exp_history_transactions"
    /\ blog.execs < MaxExecs
    /\ \E ok \in BOOLEAN :
         LET r == builderExec(builder, store, ok)
         IN /\ builder' = r.builder
            /\ store' = r.store
            /\ blog' = Logged(blog, "Exec", <<>>, r)
    /\ UNCHANGED <<nvars, qvars, cvars, avars>>

\* transactionParticipantsBatchInsertBuilder.Add(transactionID, accountID)
ParticipantsAdd ==
    /\ builder.kind = "exp_history_transaction_participants"
    /\ blog.adds < MaxAdds
    /\ \E row \in BatchParticipants, ok \in BOOLEAN :
         LET r == builderRow(builder, store, row, ok)
         IN /\ builder' = r.builder
            /\ store' = r.store
            /\ blog' = Logged(blog, "Add", <<row>>, r)
    /\ UNCHANGED <<nvars, qvars, cvars, avars>>

\* transactionParticipantsBatchInsertBuilder.Exec()
ParticipantsExec ==
    /\ builder.kind = "exp_history_transaction_participants"
    /\ blog.execs < MaxExecs
    /\ \E ok \in BOOLEAN :
         LET r == builderExec(builder, store, ok)
         IN /\ builder' = r.builder
            /\ store' = r.store
            /\ blog' = Logged(blog, "Exec", <<>>, r)
    /\ UNCHANGED <<nvars, qvars, cvars, avars>>

BNext == Add \/ Exec \/ ParticipantsAdd \/ ParticipantsExec

----------------------------------------------------------------------------
(* CheckExpTransactions: history_transactions (legacy) against
   exp_history_transactions (shadow), for one ledger *)

MaxMutations == 1

\* The ledger of the comparison test and the one after it.
CheckSequences == {123, 124}

\* The two ledger transactions of the comparison test.
CheckTransactions ==
    {LedgerTransaction(U32(1), U32(100), I64OfNat(100), "txSUCCESS", NoTimeBounds,
                       [NoMemo EXCEPT !.Type = "MemoText", !.Text = <<"1", "0", "9">>], "none"),
     [LedgerTransaction(U32(2), U32(300), I64OfNat(300), "txSUCCESS", NoTimeBounds, NoMemo, "none")
         EXCEPT !.Hash = "3389", !.Signatures = <<"sigA", "sigB">>]}

\* The row insertTransaction writes: transactionToMap(transaction, uint32(sequence)).
insertedRow(transaction, sequence, now) ==
    transactionToMap(transaction, U32OfInt32(sequence), now, now).row

Columns ==
    {"id", "transaction_hash", "ledger_sequence", "application_order", "account",
     "account_sequence", "max_fee", "fee_charged", "operation_count", "tx_envelope",
     "tx_result", "tx_meta", "tx_fee_meta", "signatures", "time_bounds", "memo_type",
     "memo", "created_at", "updated_at", "successful"}

\* The columns the test's UPDATE statements set.
MutatedColumns == Columns \ {"ledger_sequence", "application_order", "created_at", "updated_at"}

\* A comparison that also holds the write timestamps against each other.
CheckColumnsWithTimestamps == Columns

\* The columns compared: rows written at different times compare equal.
CheckColumns == Columns \ {"created_at", "updated_at"}

\* The values an UPDATE gives a column of row r.
NewValues(col, r) ==
    CASE col = "id" -> {I64OfNat(999), ToInt64(toidNew(123, 0, 0)), ToInt64(toidNew(124, 1, 0))}
      [] col = "transaction_hash" -> {Render("hex", "hash")}
      [] col = "account" -> {Render("strkey", "account")}
      [] col = "account_sequence" -> {Render("dec", "999")}
      [] col \in {"max_fee", "fee_charged", "operation_count"} -> {999}
      [] col \in {"tx_envelope", "tx_result", "tx_meta", "tx_fee_meta"} -> {GarbageResult(r[col])}
      [] col = "signatures" ->
            {<<Render("base64", "sig1"), Render("base64", "sig2")>>,
             [i \in DOMAIN r.signatures |-> r.signatures[Len(r.signatures) + 1 - i]]}
      [] col = "time_bounds" -> {Int8Range(I64OfNat(123), FALSE, I64OfNat(456))}
      [] col = "memo_type" -> {"invalid"}
      [] col = "memo" -> {NullString(<<"invalid-memo">>, TRUE)}
      [] OTHER -> {"false"}

\* The ids of ledger seq: from toid(seq, 0, 0) up to, not including, toid(seq + 1, 0, 0).
InRange(rows, seq) ==
    {r \in rows : /\ ~I64Less(r.id, ToInt64(toidNew(seq, 0, 0)))
                  /\ I64Less(r.id, ToInt64(toidNew(Int32Succ(seq), 0, 0)))}

\* A set of rows in ascending order of id.
OrderedById(rows) ==
    CHOOSE f \in [1..Cardinality(rows) -> rows] :
        \A i, j \in DOMAIN f : i < j => I64Less(f[i].id, f[j].id)

\* A row comparison that leaves the memo out.
rowsEqualButMemo(l, s) == \A c \in CheckColumns \ {"memo"} : l[c] = s[c]

\* Every compared column of the legacy row equals that of the shadow row.
rowsEqual(l, s) == \A c \in CheckColumns : l[c] = s[c]

\* CheckExpTransactions(seq): both row sets of the ledger in id order; invalid when
\* their sizes differ or some pair of rows differs in some column.
CheckExpTransactions(seq, legacyRows, shadowRows) ==
    LET transactions == OrderedById(InRange(legacyRows, seq))
        expTransactions == OrderedById(InRange(shadowRows, seq))
    IN IF Len(transactions) # Len(expTransactions) THEN FALSE
       ELSE \A i \in DOMAIN transactions : rowsEqual(transactions[i], expTransactions[i])

NoVerdict == [checked |-> FALSE, seq |-> 0, valid |-> FALSE, err |-> "none"]
NoWrites == [updated |-> FALSE, restored |-> FALSE]

\* The rows insertTransaction writes for the two transactions.
InsertedRows ==
    {insertedRow(transaction, 123, now) : transaction \in CheckTransactions, now \in {0, MaxClock}}

\* The row insertTransaction wrote where r is now.
Original(r) ==
    CHOOSE o \in InsertedRows :
        o.application_order = r.application_order /\ o.created_at = r.created_at

\* The cells of history_transactions an UPDATE has changed.
MutatedCells(rows) ==
    UNION {LET o == Original(r)
           IN {<<r, c>> : c \in {c \in MutatedColumns : r[c] # o[c]}} : r \in rows}

CInit ==
    /\ legacy = {}
    /\ shadow = {}
    /\ cres = NoVerdict
    /\ clog = NoWrites

\* The rows an UPDATE or DELETE ... WHERE ledger_sequence = 123 AND
\* application_order = order touches.
Touched(order) ==
    {r \in legacy : r.ledger_sequence = U32(123) /\ r.application_order = order}

\* insertTransaction(tt, q, "history_transactions", transaction, sequence), made
\* at the time of the shadow insert or later; the id is unique in the table.
InsertLegacy(transaction) ==
    /\ \E now \in {0, MaxClock} :
         LET row == insertedRow(transaction, 123, now)
         IN /\ \A r \in legacy : r.id # row.id
            /\ legacy' = legacy \cup {row}
    /\ cres' = NoVerdict
    /\ clog' = [clog EXCEPT !.restored = @ \/ clog.updated]
    /\ UNCHANGED shadow
    /\ UNCHANGED <<nvars, qvars, bvars, avars>>

\* insertTransaction(tt, q, "exp_history_transactions", transaction, sequence),
\* made at time 0.
InsertShadow(transaction) ==
    /\ LET row == insertedRow(transaction, 123, 0)
       IN /\ \A r \in shadow : r.id # row.id
          /\ shadow' = shadow \cup {row}
    /\ cres' = NoVerdict
    /\ UNCHANGED <<legacy, clog>>
    /\ UNCHANGED <<nvars, qvars, bvars, avars>>

\* UPDATE history_transactions SET col = value WHERE ledger_sequence = 123 AND
\* application_order = order; ids stay unique. At most MaxMutations cells of the
\* table are changed at any time.
UpdateLegacy(order, col) ==
    /\ Cardinality(MutatedCells(legacy)) < MaxMutations
    /\ Touched(order) # {}
    /\ \E r0 \in Touched(order) :
         \E value \in NewValues(col, r0) :
           LET updated == {[r EXCEPT ![col] = value] : r \in Touched(order)}
               rows == (legacy \ Touched(order)) \cup updated
           IN /\ Cardinality({r.id : r \in rows}) = Cardinality(legacy)
              /\ legacy' = rows
    /\ cres' = NoVerdict
    /\ clog' = [clog EXCEPT !.updated = TRUE]
    /\ UNCHANGED shadow
    /\ UNCHANGED <<nvars, qvars, bvars, avars>>

\* DELETE FROM history_transactions WHERE ledger_sequence = 123 AND
\* application_order = order
DeleteLegacy(order) ==
    /\ Touched(order) # {}
    /\ legacy' = legacy \ Touched(order)
    /\ cres' = NoVerdict
    /\ UNCHANGED <<shadow, clog>>
    /\ UNCHANGED <<nvars, qvars, bvars, avars>>

\* valid, err := q.CheckExpTransactions(seq)
Check(seq) ==
    /\ cres' = [checked |-> TRUE, seq |-> seq,
                valid |-> CheckExpTransactions(seq, legacy, shadow), err |-> "nil"]
    /\ UNCHANGED <<legacy, shadow, clog>>
    /\ UNCHANGED <<nvars, qvars, bvars, avars>>

CNext ==
    \/ \E transaction \in CheckTransactions : InsertLegacy(transaction)
    \/ \E transaction \in CheckTransactions : InsertShadow(transaction)
    \/ \E order \in {1, 2}, col \in MutatedColumns : UpdateLegacy(order, col)
    \/ \E order \in {1, 2} : DeleteLegacy(order)
    \/ \E seq \in CheckSequences : Check(seq)

----------------------------------------------------------------------------
(* CreateExpAccounts: history_accounts and its id sequence *)

MaxAddresses == 3
MaxAccountCalls == 3

\* The account addresses of the test.
ExpAddresses == {"GAOQ", "GBRP", "GCYV"}

\* The address lists a call may be given: any order, repeats and none included.
AddressLists == UNION {[1..n -> ExpAddresses] : n \in 0..MaxAddresses}

\* The statement is rejected without a VALUES row (nothing to insert) and when
\* two of its rows have the same address (ON CONFLICT DO UPDATE cannot affect a
\* row a second time).
insertValid(addresses) ==
    /\ addresses # <<>>
    /\ \A i, j \in DOMAIN addresses : addresses[i] = addresses[j] => i = j

\* An insert whose conflicting rows are replaced by rows with new ids.
RECURSIVE insertReplacingOnConflict(_, _, _)
insertReplacingOnConflict(rows, nextval, addresses) ==
    IF addresses = <<>> THEN [rows |-> rows, nextval |-> nextval, returning |-> <<>>]
    ELSE LET account == [Address |-> Head(addresses), ID |-> nextval]
             kept == {r \in rows : r.Address # Head(addresses)}
             rest == insertReplacingOnConflict(kept \cup {account}, nextval + 1,
                                               Tail(addresses))
         IN [rest EXCEPT !.returning = <<account>> \o @]

\* INSERT INTO history_accounts (address) VALUES ... ON CONFLICT (address) DO
\* UPDATE SET address=EXCLUDED.address RETURNING *: each row draws the next id of
\* the sequence; a row whose address is in the table keeps the table's row.
RECURSIVE insertOnConflict(_, _, _)
insertOnConflict(rows, nextval, addresses) ==
    IF addresses = <<>> THEN [rows |-> rows, nextval |-> nextval, returning |-> <<>>]
    ELSE LET existing == {r \in rows : r.Address = Head(addresses)}
             account == IF existing = {}
                        THEN [Address |-> Head(addresses), ID |-> nextval]
                        ELSE CHOOSE r \in existing : TRUE
             rest == insertOnConflict(rows \cup {account}, nextval + 1, Tail(addresses))
         IN [rest EXCEPT !.returning = <<account>> \o @]

\* addressToID: for _, account := range accounts { addressToID[account.Address] = account.ID }
addressToID(returned) ==
    [a \in {returned[i].Address : i \in DOMAIN returned} |->
        LET last == CHOOSE i \in DOMAIN returned :
                        /\ returned[i].Address = a
                        /\ \A j \in DOMAIN returned : returned[j].Address = a => j <= i
        IN returned[last].ID]

NoAccounts == [rows |-> {}, nextval |-> 1]
NoCreate == [called |-> FALSE, addresses |-> <<>>, err |-> "none", addressToID |-> <<>>]
NoMappings == [calls |-> 0, ids |-> <<>>]

AInit ==
    /\ accounts = NoAccounts
    /\ ares = NoCreate
    /\ alog = NoMappings

\* The ids successful calls have returned, the first one returned for each address.
Remembered(ids, mapping) ==
    [a \in (DOMAIN ids) \cup (DOMAIN mapping) |-> IF a \in DOMAIN ids THEN ids[a] ELSE mapping[a]]

\* q.CreateExpAccounts(addresses)
CreateExpAccounts(addresses) ==
    /\ alog.calls < MaxAccountCalls
    /\ \E dbOk \in BOOLEAN :
         IF ~dbOk \/ ~insertValid(addresses)
         THEN /\ ares' = [called |-> TRUE, addresses |-> addresses, err |-> "db error",
                          addressToID |-> <<>>]
              /\ alog' = [alog EXCEPT !.calls = @ + 1]
              /\ UNCHANGED accounts
         ELSE LET done == insertOnConflict(accounts.rows, accounts.nextval, addresses)
                  mapping == addressToID(done.returning)
              IN /\ accounts' = [rows |-> done.rows, nextval |-> done.nextval]
                 /\ ares' = [called |-> TRUE, addresses |-> addresses, err |-> "nil",
                             addressToID |-> mapping]
                 /\ alog' = [calls |-> alog.calls + 1, ids |-> Remembered(alog.ids, mapping)]
    /\ UNCHANGED <<nvars, qvars, bvars, cvars>>

ANext == \E addresses \in AddressLists : CreateExpAccounts(addresses)

\* The parts of the state a specification does not use stay as they start.
NormIdle ==
    /\ ntx = LedgerTransaction(U32(1), U32(100), I64OfNat(100), "txSUCCESS",
                               NoTimeBounds, NoMemo, "none")
    /\ nseq = U32(1)
    /\ nout = Outcome("none", NoRow)

QIdle ==
    /\ table = [rows |-> ScenarioRows, updates |-> 0]
    /\ q = NewTransactionsQ
    /\ sel = NoSelect

BIdle ==
    /\ builder = NewTransactionBatchInsertBuilder(0)
    /\ store = <<>>
    /\ blog = NoCalls(0)

CIdle == CInit

AIdle == AInit

\* The reads: a TransactionsQ chained and selected against the store.
Init == QInit /\ NormIdle /\ BIdle /\ CIdle /\ AIdle
Spec == Init /\ [][QNext]_vars

\* The normalizer: transactionToMap applied to a ledger transaction.
InitNorm == NormInit /\ QIdle /\ BIdle /\ CIdle /\ AIdle
SpecNorm == InitNorm /\ [][NormNext]_vars

\* The writes: rows added to a batch insert builder and flushed to the table.
InitBatch == BInit /\ NormIdle /\ QIdle /\ CIdle /\ AIdle
SpecBatch == InitBatch /\ [][BNext]_vars

\* The comparison of the two tables, with writes to them between the checks.
InitCheck == CInit /\ NormIdle /\ QIdle /\ BIdle /\ AIdle
SpecCheck == InitCheck /\ [][CNext]_vars

\* The account ids: calls of CreateExpAccounts on one table.
InitAccounts == AInit /\ NormIdle /\ QIdle /\ BIdle /\ CIdle
SpecAccounts == InitAccounts /\ [][ANext]_vars

----------------------------------------------------------------------------
(* Claims about TransactionsQ.Select *)

CorruptedErrors ==
    {"Corrupted data! include_failed=false but returned transaction is failed",
     "Corrupted data! successful=true but returned transaction is not success",
     "Corrupted data! successful=false but returned transaction is success"}

\* IsSuccessful() == (decoded tx_result code == TxSuccess) on a loaded row.
RowConsistent(t) ==
    /\ SafeUnmarshalResult(t.tx_result).ok
    /\ IsSuccessful(t) <=> (SafeUnmarshalResult(t.tx_result).Code = "txSUCCESS")

\* Flag true/unset with a non-success result, or flag false with a success result.
RowMismatch(t) ==
    /\ SafeUnmarshalResult(t.tx_result).ok
    /\ ~(IsSuccessful(t) <=> (SafeUnmarshalResult(t.tx_result).Code = "txSUCCESS"))

\* C1 (as claimed): a Select that returns no error loaded only rows whose
\* IsSuccessful() equals (decoded result code = TxSuccess); if any loaded row has a
\* flag that disagrees with its result, Select returns a 'Corrupted data!' error.
C1_MismatchGivesCorruptedData ==
    (sel.ran /\ sel.destOk) =>
        /\ sel.err = "nil" => \A i \in DOMAIN sel.dest : RowConsistent(sel.dest[i])
        /\ (\E i \in DOMAIN sel.dest : RowMismatch(sel.dest[i])) => sel.err \in CorruptedErrors

\* C1 (amended): a Select that returns no error loaded only rows whose
\* IsSuccessful() equals (decoded result code = TxSuccess); if a loaded row has a
\* flag that disagrees with its result, Select returns a non-nil error: a
\* 'Corrupted data!' error, or the decode error of a row loaded before it whose
\* tx_result does not decode.
C1_MismatchGivesError ==
    (sel.ran /\ sel.destOk) =>
        /\ sel.err = "nil" => \A i \in DOMAIN sel.dest : RowConsistent(sel.dest[i])
        /\ \A i \in DOMAIN sel.dest :
             RowMismatch(sel.dest[i]) =>
                \/ sel.err \in CorruptedErrors
                \/ /\ sel.err = "decode error"
                   /\ \E j \in 1..(i - 1) : ~SafeUnmarshalResult(sel.dest[j].tx_result).ok

\* With failed rows included, a loaded row flagged false whose result is success
\* made Select return the corruption error.
C1_Witness ==
    /\ sel.ran /\ sel.destOk /\ sel.includeFailed
    /\ \E i \in DOMAIN sel.dest : RowMismatch(sel.dest[i]) /\ sel.dest[i].successful = "false"
    /\ sel.err = "Corrupted data! successful=false but returned transaction is success"

\* The rows of the table read that satisfy every scoping clause of the statement
\* (account, ledger range, page cursor).
ScopedRows(sql, rows) ==
    {t \in Range(rows) :
        \A i \in DOMAIN sql.wheres :
            sql.wheres[i] # SuccessClause => ClauseHolds(sql.wheres[i], t)}

\* C2: in default mode a Select that returns no error yields rows of the scoped
\* set whose successful flag is true or unset, each once: none with successful =
\* false, and every scoped row with flag true/unset unless the page's LIMIT cut
\* the result short.
C2_DefaultModeYieldsSuccessfulScopedRows ==
    (sel.ran /\ ~sel.includeFailed /\ sel.err = "nil") =>
        LET good == {t \in ScopedRows(sel.sql, sel.rows) : t.successful \in {"true", "NULL"}}
        IN /\ \A i \in DOMAIN sel.dest : sel.dest[i] \in good /\ sel.dest[i].successful # "false"
           /\ \A i, j \in DOMAIN sel.dest : sel.dest[i] = sel.dest[j] => i = j
           /\ Len(sel.dest) = IF sel.sql.limit = 0 \/ Cardinality(good) <= sel.sql.limit
                              THEN Cardinality(good)
                              ELSE sel.sql.limit

\* A default-mode Select scoped to an account with a failed row and a row whose
\* flag is unset: the unset one is returned, the failed one is not.
C2_Witness ==
    /\ sel.ran /\ ~sel.includeFailed /\ sel.err = "nil"
    /\ sel.sql.joins = 1
    /\ \E t \in ScopedRows(sel.sql, sel.rows) : t.successful = "false"
    /\ \E i \in DOMAIN sel.dest : sel.dest[i].successful = "NULL"

\* In default mode the statement that ran ends with the success clause, and the
\* rows it loaded satisfy every clause of the statement.
C14_SuccessClauseLast ==
    (sel.ran /\ ~sel.includeFailed) =>
        LET w == sel.sql.wheres
        IN /\ Len(w) >= 1
           /\ w[Len(w)] = SuccessClause
           /\ \A i \in DOMAIN sel.dest, j \in DOMAIN w : ClauseHolds(w[j], sel.dest[i])

\* A Select that gets past the q.Err test appends the success clause to the
\* stored statement in default mode, and leaves the stored statement as it is
\* when IncludeFailed was called; the statement it hands to the store is the
\* stored one.
C14_SelectAppends ==
    (q.Err = "nil" /\ Select) =>
        /\ sel'.sql = q'.sql
        /\ ~q.includeFailed => q'.sql = [q.sql EXCEPT !.wheres = Append(@, SuccessClause)]
        /\ q.includeFailed => q'.sql = q.sql

\* C14: the statement a TransactionsQ runs joins its clauses by conjunction and,
\* in default mode, has the success clause as its final clause, after every
\* scoping clause, whatever filters and Selects were called on the object
\* before (each default-mode Select appends the clause to the stored
\* statement); after IncludeFailed, Select adds no clause and leaves the stored
\* statement unchanged.
C14_SuccessClauseFinal ==
    []C14_SuccessClauseLast /\ [][C14_SelectAppends]_vars

\* A second default-mode Select on the object, after a ledger filter was added
\* behind the first Select's success clause: the clause is there twice, the
\* second one last.
C14_Witness ==
    /\ sel.ran
    /\ ~sel.includeFailed
    /\ Len(sel.sql.wheres) = 3
    /\ sel.sql.wheres[1] = SuccessClause
    /\ sel.sql.wheres[2] # SuccessClause
    /\ sel.sql.wheres[3] = SuccessClause

\* C15 (as claimed): once a filter step on a TransactionsQ has failed (the
\* account lookup of ForAccount, the ledger lookup of ForLedger, the page
\* application of Page), every later Select on the object returns an error and
\* does not run the query, whatever filters were chained after the failing one.
C15_SelectAfterFailedFilter ==
    [][(Select /\ q.failed) => (sel'.err # "nil" /\ ~sel'.ran)]_vars

----------------------------------------------------------------------------
(* Claims about the normalizer *)

NormMarshalOk == ntx.envelopeOk /\ ntx.resultOk /\ ntx.metaOk /\ ntx.feeChangesOk

\* C3: every row transactionToMap returns has successful = true exactly when the
\* transaction's result code is TxSuccess, the tx_result it stores decodes to that
\* same code, and the row read back unchanged passes Select's corruption checks
\* in both modes (in default mode when the success filter lets it through).
C3_SuccessfulIffResultSuccess ==
    nout.status = "row" =>
        /\ (nout.row.successful = "true") <=> (ntx.Result.Code = "txSUCCESS")
        /\ nout.row.successful \in {"true", "false"}
        /\ SafeUnmarshalResult(nout.row.tx_result).ok
        /\ SafeUnmarshalResult(nout.row.tx_result).Code = ntx.Result.Code
        /\ selectRowCheck(nout.row, TRUE) = "nil"
        /\ successFilter(nout.row) => selectRowCheck(nout.row, FALSE) = "nil"

\* A row of a transaction that failed with a code other than txFAILED.
C3_Witness ==
    /\ nout.status = "row"
    /\ ntx.Result.Code = "txBAD_SEQ"
    /\ nout.row.successful = "false"

\* C8 (as claimed): for every uint32 sequence and every index, transactionToMap
\* yields a row whose id is the order key of (sequence, index, 0): its ledger field
\* is the row's ledger_sequence, its transaction field the row's
\* application_order, and it is an order key (none lies below pack(0,0,0) = 0).
C8_IdIsOrderKeyOfSequence ==
    (nout.status # "none" /\ NormMarshalOk /\ ~memoTypePanics(ntx)) =>
        /\ nout.status = "row"
        /\ nout.row.id.hi = nout.row.ledger_sequence
        /\ nout.row.id.hi = nseq
        /\ nout.row.id.lo = U32OfInt32(nout.row.application_order * Pow2(OperationBits))
        /\ ~I64Less(nout.row.id, Zero64)

\* C9 (as claimed): the stored fee_charged is the result's charged fee and the
\* stored max_fee is the envelope's declared fee, whatever their values.
C9_FeesStoredUnchanged ==
    nout.status = "row" =>
        /\ I64OfInt32(nout.row.fee_charged) = ntx.Result.FeeCharged
        /\ I64OfInt32(nout.row.max_fee) = W64(U32(0), ntx.Fee)

\* C10: the stored interval is absent without a time-bounds block; MaxTime 0 gives
\* lower bound MinTime and a null upper bound; a MaxTime above MaxInt64 gives upper
\* bound MaxInt64; any other MaxTime is stored unchanged; the upper bound stored
\* never exceeds MaxInt64.
C10_TimeBoundsStored ==
    nout.status = "row" =>
        LET tb == ntx.TimeBounds
            r  == nout.row.time_bounds
        IN /\ ~tb.set => r = NullRange
           /\ (tb.set /\ tb.MaxTime = Zero64) =>
                 (~r.null /\ r.lower = tb.MinTime /\ r.upperNull)
           /\ (tb.set /\ U64Less(MaxInt64, tb.MaxTime)) =>
                 (~r.null /\ r.lower = tb.MinTime /\ ~r.upperNull /\ r.upper = MaxInt64)
           /\ (tb.set /\ tb.MaxTime # Zero64 /\ ~U64Less(MaxInt64, tb.MaxTime)) =>
                 (~r.null /\ r.lower = tb.MinTime /\ ~r.upperNull /\ r.upper = tb.MaxTime)
           /\ (~r.null /\ ~r.upperNull) => ~U64Less(MaxInt64, r.upper)

\* A row whose MaxTime was above MaxInt64 and is stored as MaxInt64.
C10_Witness ==
    /\ nout.status = "row"
    /\ ntx.TimeBounds.set
    /\ ntx.TimeBounds.MaxTime = W64(MaxUint32, MaxUint32)
    /\ nout.row.time_bounds.upper = MaxInt64

\* A character of a memo text that is not NUL.
NotNul(c) == c # "NUL"

\* C11: for a memo of type none, text, id, hash or return the stored memo is
\* absent exactly when the type is none; a text memo is stored as the scrubbed
\* text without its NUL characters, the others kept in order; memo_type names
\* the type the memo value was taken from; any other memo type gives no row:
\* memoType panics.
C11_MemoStored ==
    /\ nout.status = "row" =>
          LET m == ntx.Memo
              r == nout.row
          IN /\ m.Type \in MemoTypes
             /\ ~r.memo.Valid <=> m.Type = "MemoNone"
             /\ ~r.memo.Valid <=> r.memo_type = "none"
             /\ m.Type = "MemoText" =>
                   /\ r.memo_type = "text"
                   /\ \A i \in DOMAIN r.memo.String : r.memo.String[i] # "NUL"
                   /\ r.memo.String = SelectSeq(Scrub(m.Text), NotNul)
             /\ m.Type = "MemoId" =>
                   (r.memo_type = "id" /\ r.memo.String = <<"dec", m.Id>>)
             /\ m.Type = "MemoHash" =>
                   (r.memo_type = "hash" /\ r.memo.String = <<"base64", m.Hash>>)
             /\ m.Type = "MemoReturn" =>
                   (r.memo_type = "return" /\ r.memo.String = <<"base64", m.RetHash>>)
    /\ (nout.status # "none" /\ ntx.Memo.Type \notin MemoTypes) =>
          /\ nout.status # "row"
          /\ memoTypePanics(ntx)
          /\ NormMarshalOk => nout.status = "panic"

\* The text "hi\x00there" stored as "hithere" with memo_type text.
C11_Witness ==
    /\ nout.status = "row"
    /\ ntx.Memo.Type = "MemoText"
    /\ ntx.Memo.Text = <<"h", "i", "NUL", "t", "h", "e", "r", "e">>
    /\ nout.row.memo = NullString(<<"h", "i", "t", "h", "e", "r", "e">>, TRUE)
    /\ nout.row.memo_type = "text"


\* C12 (as claimed): every row transactionToMap returns has created_at equal to
\* updated_at, however the clock advances between its two reads.
C12_CreatedAtEqualsUpdatedAt ==
    nout.status = "row" => nout.row.created_at = nout.row.updated_at

----------------------------------------------------------------------------
(* Claims about the batch insert builders *)

\* The number of times row x occurs in the sequence rows.
Count(rows, x) == Cardinality({i \in DOMAIN rows : rows[i] = x})

\* N rows were handed to the builder, every call so far returned nil, and the
\* last call was the first Exec.
AddsThenOneExec ==
    /\ blog.lastOp = "Exec"
    /\ blog.execs = 1
    /\ ~blog.flushFailed

\* C6: with a flush threshold K >= 1, N rows added and then one Exec make
\* exactly ceil(N/K) inserts into storage, each of at least one and at most K
\* rows, and when N mod K is not zero the last insert is made by Exec and holds
\* those N mod K rows.
C6_CeilFlushes ==
    (AddsThenOneExec /\ blog.maxBatchSize >= 1) =>
        LET N == Len(blog.added)
            K == blog.maxBatchSize
            F == blog.flushes
        IN /\ Len(F) = (N + K - 1) \div K
           /\ \A i \in DOMAIN F : F[i].size >= 1 /\ F[i].size <= K
           /\ (N % K # 0) => /\ F[Len(F)].by = "Exec"
                             /\ F[Len(F)].size = N % K
           /\ (N % K = 0) => \A i \in DOMAIN F : F[i].by = "Add"

\* Three rows through a builder of threshold two: one flush by Add and the
\* last, partial one by Exec.
C6_Witness ==
    /\ AddsThenOneExec
    /\ blog.maxBatchSize = 2
    /\ Len(blog.added) = 3
    /\ Len(blog.flushes) = 2
    /\ blog.flushes[2] = [size |-> 1, by |-> "Exec"]

\* C7: after Adds that all returned nil and an Exec that returned nil, whatever
\* maxBatchSize the builder was constructed with (0 included), the table holds
\* each added row as many times as it was added, with the values given to Add,
\* and the builder holds no pending rows.
C7_AllAddedRowsPersistedOnce ==
    (/\ blog.lastOp = "Exec"
     /\ ~blog.flushFailed
     /\ blog.adds = Len(blog.added)) =>
        /\ Len(store) = Len(blog.added)
        /\ \A i \in DOMAIN blog.added :
               Count(store, blog.added[i]) = Count(blog.added, blog.added[i])
        /\ \A i \in DOMAIN store : Count(blog.added, store[i]) >= 1
        /\ builder.rows = <<>>

\* The participants test: maxBatchSize 0, four pairs added, one Exec.
C7_Witness ==
    /\ blog.lastOp = "Exec"
    /\ ~blog.flushFailed
    /\ blog.maxBatchSize = 0
    /\ blog.adds = MaxAdds
    /\ Len(blog.added) = MaxAdds
    /\ Len(store) = MaxAdds
    /\ builder.rows = <<>>

----------------------------------------------------------------------------
(* Claims about CheckExpTransactions *)

\* The legacy rows written for ledger seq, wherever their ids are now.
LedgerRows(seq) == {r \in legacy : r.ledger_sequence = U32OfInt32(seq)}

\* The tables held identical rows for ledger seq, and exactly one column of
\* exactly one legacy row has been changed since.
SingleColumnMutation(seq) ==
    /\ InRange(shadow, seq) # {}
    /\ \A s \in InRange(shadow, seq) :
         Cardinality({l \in LedgerRows(seq) : l.application_order = s.application_order}) = 1
    /\ \A l \in LedgerRows(seq) :
         \E s \in InRange(shadow, seq) : l.application_order = s.application_order
    /\ Cardinality({lc \in LedgerRows(seq) \X (Columns \ {"created_at", "updated_at"}) :
                      \E s \in InRange(shadow, seq) :
                          /\ s.application_order = lc[1].application_order
                          /\ s[lc[2]] # lc[1][lc[2]]}) = 1

\* The two row sets of ledger seq differ in size.
SizesDiffer(seq) ==
    Cardinality(InRange(legacy, seq)) # Cardinality(InRange(shadow, seq))

\* C4: with identical rows in both tables for a ledger and then exactly one
\* column of exactly one legacy row changed, or with row sets of different
\* sizes for the ledger, the check of that ledger returns valid = false and no
\* error.
C4_MutationOrSizeGivesInvalid ==
    (cres.checked /\ (SingleColumnMutation(cres.seq) \/ SizesDiffer(cres.seq))) =>
        (~cres.valid /\ cres.err = "nil")

\* Both rows in both tables, one cell of a legacy row changed without moving the
\* row out of the ledger, and the check said invalid.
C4_Witness ==
    /\ cres.checked
    /\ cres.seq = 123
    /\ SingleColumnMutation(123)
    /\ ~SizesDiffer(123)
    /\ Cardinality(InRange(shadow, 123)) = 2
    /\ \E l \in legacy : l.signatures = <<Render("base64", "sigB"), Render("base64", "sigA")>>
    /\ ~cres.valid

\* Table rows holds in ledger seq exactly the rows insertTransaction writes for
\* the transactions T, one each.
HoldsRowsOf(rows, seq, T) ==
    /\ \A r \in InRange(rows, seq) :
         \E transaction \in T, now \in 0..MaxClock : r = insertedRow(transaction, 123, now)
    /\ \A transaction \in T :
         Cardinality({r \in InRange(rows, seq) :
                        \E now \in 0..MaxClock : r = insertedRow(transaction, 123, now)}) = 1

\* Both tables hold, inside the ledger's key range, the rows of the same
\* transactions (none included).
IdenticalRowSets(seq) ==
    \E T \in SUBSET CheckTransactions :
        HoldsRowsOf(legacy, seq, T) /\ HoldsRowsOf(shadow, seq, T)

\* A check of tables with identical row sets for the ledger is valid.
C5_IdenticalIsValid ==
    (cres.checked /\ IdenticalRowSets(cres.seq)) => (cres.valid /\ cres.err = "nil")

\* A check writes to neither table, and repeated with no write in between it
\* returns what it returned before.
C5_CheckReadOnlyIdempotent ==
    cres'.checked =>
        /\ legacy' = legacy
        /\ shadow' = shadow
        /\ (cres.checked /\ cres.seq = cres'.seq) => cres' = cres

\* C5: the check returns valid = true whenever both tables hold identical row
\* sets inside the ledger's key range (both empty included), so also after a
\* changed legacy row was deleted and the original row inserted again; a check
\* leaves both tables unchanged, and two checks of a ledger with no write
\* between them return the same verdict.
C5_ValidWhenIdenticalAndReadOnly ==
    []C5_IdenticalIsValid /\ [][C5_CheckReadOnlyIdempotent]_vars

\* A legacy row was changed, then deleted and written again at another time than
\* the shadow row, and the check of the two-row ledger said valid.
C5_Witness ==
    /\ cres.checked
    /\ cres.seq = 123
    /\ cres.valid
    /\ clog.updated
    /\ clog.restored
    /\ Cardinality(InRange(legacy, 123)) = 2
    /\ IdenticalRowSets(123)
    /\ \E l \in legacy : l.created_at = MaxClock

----------------------------------------------------------------------------
(* Claims about CreateExpAccounts *)

\* The set of the addresses a call was given.
Requested(addresses) == {addresses[i] : i \in DOMAIN addresses}

\* C13: a call of CreateExpAccounts that returns no error returns a mapping with
\* exactly one entry for each address requested and no other, with distinct ids
\* for distinct addresses, and gives every address an earlier successful call
\* returned the id that call returned.
C13_SameIdsForSameAddresses ==
    (ares.called /\ ares.err = "nil") =>
        LET m == ares.addressToID
        IN /\ DOMAIN m = Requested(ares.addresses)
           /\ Cardinality(DOMAIN m) = Len(ares.addresses)
           /\ \A a, b \in DOMAIN m : m[a] = m[b] => a = b
           /\ \A a \in DOMAIN m : a \in DOMAIN alog.ids /\ m[a] = alog.ids[a]

\* A third call with a new address next to two addresses of earlier calls, whose
\* ids are no longer the next ones of the sequence.
C13_Witness ==
    /\ ares.called
    /\ ares.err = "nil"
    /\ alog.calls = 3
    /\ Len(ares.addresses) = 3
    /\ accounts.nextval > 4
    /\ \E a \in DOMAIN ares.addressToID : ares.addressToID[a] > 3

====
